---- MODULE Spec2Model ----
(***************************************************************************)
(* Job orchestration and resilience layer of the AI4Thai services:         *)
(*   - ErrorTracker and the handle_exceptions retry executor               *)
(*     (ai-services/shared/error_handling.py),                             *)
(*   - CircuitBreaker (ai-services/shared/error_handling.py),              *)
(*   - the Celery detection tasks, the EnhancedQueue lifecycle hooks and   *)
(*     the job status endpoints (ai-services/queue-worker).                *)
(*                                                                         *)
(*   - BatchProcessor and PerformanceMonitor                               *)
(*     (ai-services/shared/performance_monitor.py).                        *)
(*                                                                         *)
(* Each component is a state machine of its own with its own               *)
(* specification (SpecRetry, SpecBreakerSeq, SpecBreaker, SpecJob,         *)
(* SpecBatch, ...); the variables of the other components keep their       *)
(* initial value.                                                          *)
(***************************************************************************)
EXTENDS Integers, Sequences, FiniteSets, TLC

VARIABLES
    \* ---- wall clock (time.time(), whole seconds)
    now,
    \* ---- ErrorTracker (error_handling.py:58-153)
    max_records,        \* ErrorTracker.max_records
    error_records,      \* ErrorTracker.error_records (list of ErrorRecord)
    error_counts,       \* ErrorTracker.error_counts  (key -> count, absent = 0)
    next_id,            \* source of fresh error ids (uuid4)
    recorded,           \* the records built by the record_error calls so far
    stats,              \* the answer of the statistics or health read that just returned
    tw,                 \* per thread inside record_error: position and locals
    \* ---- handle_exceptions wrapper (error_handling.py:160-247)
    retry_attempts,     \* decorator argument
    category,           \* decorator argument
    severity,           \* decorator argument
    has_recovery,       \* recovery_func is not None
    is_async,           \* asyncio.iscoroutinefunction(func)
    r_pc,               \* "idle" | "loop" | "returned" | "raised"
    attempt,            \* local attempt
    last_error,         \* local last_error
    raised_error,       \* the exception that left the wrapper
    calls,              \* invocations of func in this wrapper call
    records_at_call,    \* len(error_records) when this wrapper call started
    waits,              \* sequence of sleeps made by this wrapper call
    recoveries,         \* sequence of recovery_func invocations
    wrapper_calls,      \* number of wrapper calls started so far
    \* ---- CircuitBreaker (error_handling.py:250-288)
    failure_threshold,  \* CircuitBreaker.failure_threshold
    timeout_seconds,    \* CircuitBreaker.timeout_seconds
    failure_count,      \* CircuitBreaker.failure_count
    last_failure_time,  \* CircuitBreaker.last_failure_time
    state,              \* CircuitBreaker.state
    wk,                 \* per caller of call(): position and locals
    ncalls,             \* calls of call() started so far
    call_budget,        \* calls of call() a behaviour makes at most
    tick_budget,        \* seconds the clock advances at most
    fn_failed,          \* invocations of func that raised
    fn_succeeded,       \* invocations of func that returned
    consec,             \* invocations of func that raised since the last one that returned
    \* ---- queue worker (queue-worker/tasks.py, enhanced_queue.py, app.py)
    job,                \* per task id: the Celery request (position, retries, payload)
    task_status,        \* Redis hash task:<id>:status written by EnhancedQueue
    backend,            \* Celery result backend: the meta stored per task id
    resp,               \* the answer of the last status read
    clock_moves,        \* changes of the wall clock so far
    \* ---- backend queue worker (backend/queue-worker/app.py)
    jobs_storage,       \* the dict jobs_storage: job id -> job data
    api_resp,           \* the last two answers of GET /api/v1/jobs/{job_id}
    \* ---- BatchProcessor (performance_monitor.py:267-306)
    max_batch_size,     \* BatchProcessor.max_batch_size
    batch_timeout,      \* BatchProcessor.timeout_seconds
    pending_requests,   \* BatchProcessor.pending_requests
    processing_lock,    \* BatchProcessor.processing_lock: its holder, 0 when free
    batch_call,         \* per request: the call of process_batch that submits it
    downstream,         \* the calls of process_func made so far
    \* ---- PerformanceMonitor (performance_monitor.py:34-204)
    max_history,        \* PerformanceMonitor.max_history
    metrics_history,    \* PerformanceMonitor.metrics_history (deque of samples)
    summary             \* the answer of the get_performance_summary call that just returned

retryVars == <<retry_attempts, category, severity, has_recovery, is_async, r_pc,
               attempt, last_error, raised_error, calls, records_at_call, waits,
               recoveries, wrapper_calls>>
trackerVars == <<max_records, error_records, error_counts, next_id, recorded, stats, tw>>

breakerVars == <<failure_threshold, timeout_seconds, failure_count,
                 last_failure_time, state, wk, ncalls, call_budget, tick_budget,
                 fn_failed, fn_succeeded, consec>>

jobVars == <<job, task_status, backend, resp, clock_moves>>

webVars == <<jobs_storage, api_resp>>

batchVars == <<max_batch_size, batch_timeout, pending_requests, processing_lock,
               batch_call, downstream>>

perfVars == <<max_history, metrics_history, summary>>

vars == <<now, trackerVars, retryVars, breakerVars, jobVars, webVars, batchVars, perfVars>>

----------------------------------------------------------------------------
\* Bounds of the model
MaxRetryAttempts == 3      \* retry_attempts ranges over 0..MaxRetryAttempts
MaxWrapperCalls == 1       \* wrapper calls per behaviour
MaxBackoffAttempts == 7    \* retry_attempts ranges over 0..MaxBackoffAttempts (backoff)

MaxClockMoves == 1         \* changes of the wall clock per behaviour (queue worker)
NumWorkers == 2            \* workers that share one circuit breaker
MaxCalls == 3              \* calls of CircuitBreaker.call per behaviour (several workers)
MaxSeqCalls == 5           \* calls of CircuitBreaker.call per behaviour (one caller)
MaxThreshold == 2          \* failure_threshold ranges over 1..MaxThreshold
TimeoutSeconds == 1        \* timeout_seconds of the modelled breaker
MaxTicks == 2              \* seconds the clock advances per behaviour (several workers)
MaxSeqTicks == 4           \* seconds the clock advances per behaviour (one caller)
StartTime == 10            \* time.time() when the breaker is built

\* Program constants
MaxRetries == 3                \* retry_kwargs={"max_retries": 3, ...}
StatusTtl == 3600              \* self.redis.expire(key, 3600)
ResultExpires == 86400         \* result_expires=86400
DefaultFailureThreshold == 5   \* CircuitBreaker(failure_threshold=5)
DefaultTimeoutSeconds == 60    \* CircuitBreaker(timeout_seconds=60)
DefaultMaxRecords == 1000  \* ErrorTracker(max_records=1000)
BackoffCap == 30           \* min(2 ** (attempt - 1), 30)

\* Python None where an exception is expected
None == [type |-> "None", nth |-> 0]

Categories == {"model_error", "network_error"}
Severities == {"medium", "critical"}
ErrTypes == {"ConnectionError", "ValueError"}

Min(a, b) == IF a <= b THEN a ELSE b

FirstN(s, n) == IF Len(s) <= n THEN s ELSE SubSeq(s, 1, n)

\* error_records[-max_records:]; s[-0:] is the whole list
LastN(s, n) == IF n = 0 \/ Len(s) <= n THEN s ELSE SubSeq(s, Len(s) - n + 1, Len(s))

----------------------------------------------------------------------------
\* ErrorTracker

ErrorKey(cat, err) == <<cat, err.type>>

\* type(error).__name__ of the error CircuitBreaker.call raises at line 267
BreakerErrType == "Exception"

AllKeys == Categories \X (ErrTypes \cup {BreakerErrType})

\* ErrorTracker.record_error: the record appended by lines 78-89
NewRecord(err, cat, sev, context) ==
    [timestamp |-> now, error_id |-> next_id, category |-> cat, severity |-> sev,
     message |-> err, context |-> context, retry_count |-> 0]

\* lines 89-93: append, then keep the last max_records
AppendSkipped(records, rec) == records
AppendTrimmed(records, rec) ==
    LET appended == Append(records, rec)
    IN  IF Len(appended) > max_records THEN LastN(appended, max_records)
        ELSE appended

\* lines 95-97: error_counts[key] = error_counts.get(key, 0) + 1
CountsAfter(counts, key) == [counts EXCEPT ![key] = @ + 1]

TrackerThreads == 1..NumWorkers

\* a thread that is not inside record_error
NoRecordCall == [pc |-> "idle", key |-> <<"none", "none">>, sliced |-> <<>>, read |-> 0]

\* no statistics or health read was made
NoStats == [kind |-> "none", hours |-> 0, at |-> 0, answer |-> [status |-> "none"]]

\* ErrorTracker.record_error as one call
record_error(err, cat, sev, context) ==
    /\ error_records' = AppendTrimmed(error_records, NewRecord(err, cat, sev, context))
    /\ error_counts' = CountsAfter(error_counts, ErrorKey(cat, err))
    /\ next_id' = next_id + 1
    /\ recorded' = Append(recorded, NewRecord(err, cat, sev, context))
    /\ stats' = NoStats
    /\ UNCHANGED <<max_records, tw>>

\* ErrorTracker.__init__, lines 61-64
TrackerConstructed(capacity) ==
    /\ max_records = capacity
    /\ error_records = << >>
    /\ error_counts = [k \in AllKeys |-> 0]
    /\ next_id = 1
    /\ recorded = << >>
    /\ stats = NoStats
    /\ tw = [w \in TrackerThreads |-> NoRecordCall]

\* line 157: error_tracker = ErrorTracker()
TrackerInit == TrackerConstructed(DefaultMaxRecords)

----------------------------------------------------------------------------
\* handle_exceptions: async_wrapper / sync_wrapper

\* the loop condition `while attempt <= retry_attempts`
LoopHoldsOff(a, n) == a < n
LoopHolds(a, n) == a <= n

\* the backoff `min(2 ** (attempt - 1), 30)`
WaitTimeUncapped(a) == 2 ^ (a - 1)
WaitTime(a) == Min(2 ^ (a - 1), BackoffCap)

\* the exception that leaves the wrapper: `raise last_error`
ReraisedNone(last) == None
Reraised(last) == last

RetryLocalsInit ==
    /\ r_pc = "idle"
    /\ attempt = 0
    /\ last_error = None
    /\ raised_error = None
    /\ calls = 0
    /\ records_at_call = 0
    /\ waits = << >>
    /\ recoveries = << >>

\* one iteration of the loop in which func returns (lines 174-176 / 221-223)
AttemptReturns ==
    /\ r_pc = "loop"
    /\ LoopHolds(attempt, retry_attempts)
    /\ calls' = calls + 1
    /\ r_pc' = "returned"
    /\ UNCHANGED <<now, trackerVars, retry_attempts, category, severity,
                   has_recovery, is_async, attempt, last_error, raised_error,
                   records_at_call, waits, recoveries, wrapper_calls>>
    /\ UNCHANGED <<breakerVars, jobVars, webVars, batchVars, perfVars>>

\* one iteration of the loop in which func raises (lines 177-210 / 224-241)
AttemptRaises ==
    /\ r_pc = "loop"
    /\ LoopHolds(attempt, retry_attempts)
    /\ \E ty \in ErrTypes, hook_raises \in BOOLEAN :
         LET e == [type |-> ty, nth |-> calls + 1]
             a == attempt + 1
             context == [attempt |-> a, max_attempts |-> retry_attempts + 1]
             retrying == a <= retry_attempts
         IN  /\ calls' = calls + 1
             /\ last_error' = e
             /\ attempt' = a
             /\ record_error(e, category, severity, context)
             \* lines 194-202: only the async wrapper calls recovery_func
             /\ IF is_async /\ has_recovery /\ retrying
                  THEN recoveries' = Append(recoveries,
                           [error |-> e, context |-> context, raised |-> hook_raises])
                  ELSE hook_raises = FALSE /\ UNCHANGED recoveries
             \* lines 204-210 / 238-241: sleep before the retry
             /\ IF retrying
                  THEN /\ waits' = Append(waits, WaitTime(a))
                       /\ now' = now + WaitTime(a)
                  ELSE UNCHANGED <<waits, now>>
    /\ UNCHANGED <<retry_attempts, category, severity, has_recovery, is_async,
                   r_pc, raised_error, records_at_call, wrapper_calls>>
    /\ UNCHANGED <<breakerVars, jobVars, webVars, batchVars, perfVars>>

\* loop exit: `raise last_error` (lines 212-214 / 243)
Exhausted ==
    /\ r_pc = "loop"
    /\ ~LoopHolds(attempt, retry_attempts)
    /\ r_pc' = "raised"
    /\ raised_error' = Reraised(last_error)
    /\ UNCHANGED <<now, trackerVars, retry_attempts, category, severity,
                   has_recovery, is_async, attempt, last_error, calls,
                   records_at_call, waits, recoveries, wrapper_calls>>
    /\ UNCHANGED <<breakerVars, jobVars, webVars, batchVars, perfVars>>

\* the decorated function is called again: fresh locals, same tracker
CallWrapper ==
    /\ r_pc \in {"idle", "returned", "raised"}
    /\ wrapper_calls < MaxWrapperCalls
    /\ wrapper_calls' = wrapper_calls + 1
    /\ r_pc' = "loop"
    /\ attempt' = 0
    /\ last_error' = None
    /\ raised_error' = None
    /\ calls' = 0
    /\ records_at_call' = Len(error_records)
    /\ waits' = << >>
    /\ recoveries' = << >>
    /\ UNCHANGED <<now, trackerVars, retry_attempts, category, severity,
                   has_recovery, is_async>>
    /\ UNCHANGED <<breakerVars, jobVars, webVars, batchVars, perfVars>>


----------------------------------------------------------------------------
\* CircuitBreaker.call.  The class holds no lock, so a call is a sequence of
\* steps, one per read or write of the shared fields; func runs between
\* the steps "in_fn" is entered and left.

Workers == 1..NumWorkers

NoCall == [pc |-> "idle", tmp |-> 0, gate_state |-> "none", gate_elapsed |-> FALSE,
           invoked |-> FALSE, outcome |-> "none", fn_at |-> 0]

\* CircuitBreaker.__init__ (lines 253-258); time.time() is far beyond
\* last_failure_time = 0 + timeout_seconds when the breaker is built
BreakerConstructed(threshold, timeout, max_calls, max_ticks) ==
    /\ call_budget = max_calls
    /\ tick_budget = max_ticks
    /\ failure_threshold = threshold
    /\ timeout_seconds = timeout
    /\ failure_count = 0
    /\ last_failure_time = 0
    /\ state = "CLOSED"
    /\ wk = [w \in Workers |-> NoCall]
    /\ ncalls = 0
    /\ fn_failed = 0
    /\ fn_succeeded = 0
    /\ consec = 0

\* the breaker as the other components' specifications leave it
BreakerIdle == BreakerConstructed(DefaultFailureThreshold, DefaultTimeoutSeconds, 0, 0)

\* line 263: time.time() - self.last_failure_time > self.timeout_seconds
ElapsedOrEqual(t, last, timeout) == t - last >= timeout
Elapsed(t, last, timeout) == t - last > timeout

\* line 284: self.failure_count >= self.failure_threshold
ReachedAbove(count, threshold) == count > threshold
Reached(count, threshold) == count >= threshold

\* line 282: self.last_failure_time = time.time()
FailureTimeKept(t, old) == old
FailureTime(t, old) == t

\* line 277: self.failure_count = 0
CountAfterSuccessKept(old) == old
CountAfterSuccess(old) == 0

otherVars == <<trackerVars, retryVars, jobVars, webVars, batchVars, perfVars>>
budgetVars == <<call_budget, tick_budget>>

\* lines 262-267, state CLOSED or HALF_OPEN: fall through to func (line 270)
GatePass(w) ==
    /\ wk[w].pc = "idle"
    /\ ncalls < call_budget
    /\ state # "OPEN"
    /\ wk' = [wk EXCEPT ![w] = [NoCall EXCEPT !.pc = "in_fn", !.gate_state = state,
                                              !.invoked = TRUE]]
    /\ ncalls' = ncalls + 1
    /\ UNCHANGED <<now, otherVars, budgetVars, failure_threshold, timeout_seconds, failure_count,
                   last_failure_time, state, fn_failed, fn_succeeded, consec>>

\* lines 262-263, state OPEN and the timeout has passed: go on to line 264
GateElapsed(w) ==
    /\ wk[w].pc = "idle"
    /\ ncalls < call_budget
    /\ state = "OPEN"
    /\ Elapsed(now, last_failure_time, timeout_seconds)
    /\ wk' = [wk EXCEPT ![w] = [NoCall EXCEPT !.pc = "set_half", !.gate_state = "OPEN",
                                   !.gate_elapsed = now - last_failure_time > timeout_seconds]]
    /\ ncalls' = ncalls + 1
    /\ UNCHANGED <<now, otherVars, budgetVars, failure_threshold, timeout_seconds, failure_count,
                   last_failure_time, state, fn_failed, fn_succeeded, consec>>

\* lines 262-267, state OPEN within the timeout: raise "Circuit breaker is OPEN"
GateReject(w) ==
    /\ wk[w].pc = "idle"
    /\ ncalls < call_budget
    /\ state = "OPEN"
    /\ ~Elapsed(now, last_failure_time, timeout_seconds)
    /\ wk' = [wk EXCEPT ![w] = [NoCall EXCEPT !.gate_state = "OPEN", !.outcome = "rejected",
                                   !.gate_elapsed = now - last_failure_time > timeout_seconds]]
    /\ ncalls' = ncalls + 1
    /\ UNCHANGED <<now, otherVars, budgetVars, failure_threshold, timeout_seconds, failure_count,
                   last_failure_time, state, fn_failed, fn_succeeded, consec>>

\* line 264: self.state = "HALF_OPEN", then func is invoked (line 270)
SetHalfOpen(w) ==
    /\ wk[w].pc = "set_half"
    /\ state' = "HALF_OPEN"
    /\ wk' = [wk EXCEPT ![w].pc = "in_fn", ![w].invoked = TRUE]
    /\ UNCHANGED <<now, otherVars, budgetVars, failure_threshold, timeout_seconds, failure_count,
                   last_failure_time, ncalls, fn_failed, fn_succeeded, consec>>

\* line 270: func returns
FuncReturns(w) ==
    /\ wk[w].pc = "in_fn"
    /\ wk' = [wk EXCEPT ![w].pc = "s273"]
    /\ fn_succeeded' = fn_succeeded + 1
    /\ consec' = 0
    /\ UNCHANGED <<now, otherVars, budgetVars, failure_threshold, timeout_seconds, failure_count,
                   last_failure_time, state, ncalls, fn_failed>>

\* line 270: func raises
FuncRaises(w) ==
    /\ wk[w].pc = "in_fn"
    /\ wk' = [wk EXCEPT ![w].pc = "f281r", ![w].fn_at = now]
    /\ fn_failed' = fn_failed + 1
    /\ consec' = consec + 1
    /\ UNCHANGED <<now, otherVars, budgetVars, failure_threshold, timeout_seconds, failure_count,
                   last_failure_time, state, ncalls, fn_succeeded>>

\* lines 273-275: if self.state == "HALF_OPEN": self.state = "CLOSED"
CloseIfHalfOpen(w) ==
    /\ wk[w].pc = "s273"
    /\ state' = IF state = "HALF_OPEN" THEN "CLOSED" ELSE state
    /\ wk' = [wk EXCEPT ![w].pc = "s277"]
    /\ UNCHANGED <<now, otherVars, budgetVars, failure_threshold, timeout_seconds, failure_count,
                   last_failure_time, ncalls, fn_failed, fn_succeeded, consec>>

\* lines 277-278: self.failure_count = 0; return result
ResetCount(w) ==
    /\ wk[w].pc = "s277"
    /\ failure_count' = CountAfterSuccess(failure_count)
    /\ wk' = [wk EXCEPT ![w].pc = "idle", ![w].outcome = "success"]
    /\ UNCHANGED <<now, otherVars, budgetVars, failure_threshold, timeout_seconds,
                   last_failure_time, state, ncalls, fn_failed, fn_succeeded, consec>>

\* line 281, `self.failure_count += 1`: the read
ReadCount(w) ==
    /\ wk[w].pc = "f281r"
    /\ wk' = [wk EXCEPT ![w].pc = "f281w", ![w].tmp = failure_count]
    /\ UNCHANGED <<now, otherVars, budgetVars, failure_threshold, timeout_seconds, failure_count,
                   last_failure_time, state, ncalls, fn_failed, fn_succeeded, consec>>

\* line 281, `self.failure_count += 1`: the write
WriteCount(w) ==
    /\ wk[w].pc = "f281w"
    /\ failure_count' = wk[w].tmp + 1
    /\ wk' = [wk EXCEPT ![w].pc = "f282"]
    /\ UNCHANGED <<now, otherVars, budgetVars, failure_threshold, timeout_seconds,
                   last_failure_time, state, ncalls, fn_failed, fn_succeeded, consec>>

\* line 282: self.last_failure_time = time.time()
StampFailure(w) ==
    /\ wk[w].pc = "f282"
    /\ last_failure_time' = FailureTime(now, last_failure_time)
    /\ wk' = [wk EXCEPT ![w].pc = "f284"]
    /\ UNCHANGED <<now, otherVars, budgetVars, failure_threshold, timeout_seconds, failure_count,
                   state, ncalls, fn_failed, fn_succeeded, consec>>

\* lines 284-288: open when the threshold is reached; re-raise
OpenIfReached(w) ==
    /\ wk[w].pc = "f284"
    /\ state' = IF Reached(failure_count, failure_threshold) THEN "OPEN" ELSE state
    /\ wk' = [wk EXCEPT ![w].pc = "idle", ![w].outcome = "failure"]
    /\ UNCHANGED <<now, otherVars, budgetVars, failure_threshold, timeout_seconds, failure_count,
                   last_failure_time, ncalls, fn_failed, fn_succeeded, consec>>

\* the wall clock advances
Tick ==
    /\ now < StartTime + tick_budget
    /\ now' = now + 1
    /\ UNCHANGED <<otherVars, breakerVars>>

Step(w) ==
    \/ GatePass(w) \/ GateElapsed(w) \/ GateReject(w) \/ SetHalfOpen(w)
    \/ FuncReturns(w) \/ FuncRaises(w) \/ CloseIfHalfOpen(w) \/ ResetCount(w)
    \/ ReadCount(w) \/ WriteCount(w) \/ StampFailure(w) \/ OpenIfReached(w)

----------------------------------------------------------------------------
\* A function decorated with handle_exceptions whose body is
\* breaker.call(fn): one caller, so every call of the breaker runs to its
\* end within the attempt that made it.

guardedFrame == <<jobVars, webVars, batchVars, perfVars, retry_attempts, category, severity, has_recovery,
                  is_async, raised_error, records_at_call, wrapper_calls,
                  failure_threshold, timeout_seconds, call_budget, tick_budget>>

\* the except branch of the wrapper (lines 177-210 / 224-241) for error e
WrapperExcept(e, hook_raises) ==
    LET a == attempt + 1
        context == [attempt |-> a, max_attempts |-> retry_attempts + 1]
        retrying == a <= retry_attempts
    IN  /\ calls' = calls + 1
        /\ last_error' = e
        /\ attempt' = a
        /\ record_error(e, category, severity, context)
        /\ IF is_async /\ has_recovery /\ retrying
             THEN recoveries' = Append(recoveries,
                      [error |-> e, context |-> context, raised |-> hook_raises])
             ELSE hook_raises = FALSE /\ UNCHANGED recoveries
        /\ IF retrying
             THEN /\ waits' = Append(waits, WaitTime(a))
                  /\ now' = now + WaitTime(a)
             ELSE UNCHANGED <<waits, now>>
        /\ UNCHANGED r_pc

\* the gate of CircuitBreaker.call lets the call through (lines 262-265)
GateOpens == state # "OPEN" \/ Elapsed(now, last_failure_time, timeout_seconds)

\* an attempt in which the breaker is OPEN within its timeout: call raises
\* "Circuit breaker is OPEN" (line 267) and the wrapper catches it (line 177)
GuardedRejected ==
    /\ r_pc = "loop"
    /\ LoopHolds(attempt, retry_attempts)
    /\ ~GateOpens
    /\ wk' = [wk EXCEPT ![1] = [NoCall EXCEPT !.gate_state = "OPEN",
                                              !.outcome = "rejected"]]
    /\ ncalls' = ncalls + 1
    /\ \E hook_raises \in BOOLEAN :
         WrapperExcept([type |-> BreakerErrType, nth |-> calls + 1], hook_raises)
    /\ UNCHANGED <<guardedFrame, failure_count, last_failure_time, state,
                   fn_failed, fn_succeeded, consec>>

\* an attempt in which fn is invoked and returns (lines 270-278, 176)
GuardedReturns ==
    /\ r_pc = "loop"
    /\ LoopHolds(attempt, retry_attempts)
    /\ GateOpens
    /\ wk' = [wk EXCEPT ![1] = [NoCall EXCEPT !.gate_state = state, !.invoked = TRUE,
                                              !.outcome = "success"]]
    /\ ncalls' = ncalls + 1
    /\ fn_succeeded' = fn_succeeded + 1
    /\ consec' = 0
    /\ state' = IF state \in {"OPEN", "HALF_OPEN"} THEN "CLOSED" ELSE state
    /\ failure_count' = CountAfterSuccess(failure_count)
    /\ calls' = calls + 1
    /\ r_pc' = "returned"
    /\ UNCHANGED <<guardedFrame, now, trackerVars, attempt, last_error, waits,
                   recoveries, last_failure_time, fn_failed>>

\* an attempt in which fn is invoked and raises (lines 270, 280-288, 177)
GuardedRaises ==
    /\ r_pc = "loop"
    /\ LoopHolds(attempt, retry_attempts)
    /\ GateOpens
    /\ wk' = [wk EXCEPT ![1] = [NoCall EXCEPT !.gate_state = state, !.invoked = TRUE,
                                              !.outcome = "failure", !.fn_at = now]]
    /\ ncalls' = ncalls + 1
    /\ fn_failed' = fn_failed + 1
    /\ consec' = consec + 1
    /\ failure_count' = failure_count + 1
    /\ last_failure_time' = FailureTime(now, last_failure_time)
    /\ state' = IF Reached(failure_count + 1, failure_threshold) THEN "OPEN"
                ELSE IF state = "OPEN" THEN "HALF_OPEN" ELSE state
    /\ \E ty \in ErrTypes, hook_raises \in BOOLEAN :
         WrapperExcept([type |-> ty, nth |-> calls + 1], hook_raises)
    /\ UNCHANGED <<guardedFrame, fn_succeeded>>


----------------------------------------------------------------------------
\* Queue worker: the Celery detection tasks (tasks.py), the lifecycle hooks of
\* EnhancedQueue (enhanced_queue.py) and the status endpoint (app.py).
\*
\* Celery runs a task as: task_prerun signal, the task body, then on return
\* state SUCCESS, on Retry state RETRY, on any other exception state FAILURE
\* and the task_failure signal; the task_postrun signal closes every run and
\* carries that state.  Task.retry (tasks.py:163) queues the next run and
\* raises Retry while request.retries < max_retries, and raises the
\* exception of the run otherwise.  The Redis server is reachable throughout.

notJobVars == <<trackerVars, retryVars, breakerVars, webVars, batchVars, perfVars>>

\* Task ids.  Every id has its own status key and its own result key and no
\* handler reads the data of another id, so one id that is submitted and one
\* that never is cover the cases.
UnknownId == "unknown-id"
JobIds == {"job-1", UnknownId}

NoJob == [pc |-> "none", retries |-> 0, image_valid |-> TRUE, outcome |-> "none",
          cancelled_from |-> "none"]

\* a Redis hash that does not exist
NoHash == [exists |-> FALSE, expires_at |-> -1, status |-> "absent", updated_at |-> -1,
           started_at |-> -1, task_name |-> "absent", completed_at |-> -1,
           result |-> "absent", failed_at |-> -1, error |-> "absent",
           traceback |-> "absent"]

\* a task id the result backend knows nothing about
NoMeta == [exists |-> FALSE, expires_at |-> -1, state |-> "PENDING", result |-> "absent"]

\* no status read yet
NoResp == [job_id |-> "none", submitted |-> FALSE,
           api |-> [status |-> "none", result |-> "absent",
                    error |-> "absent", progress |-> "absent"],
           task_status |-> None]

\* HSET key field value [field value ...]: sets the given fields, keeps the others
Merge(h, mapping) == [f \in DOMAIN h |-> IF f \in DOMAIN mapping THEN mapping[f] ELSE h[f]]

\* the values of a mapping the Redis client cannot encode: Python None and
\* the dict a detection task returns (tasks.py:142-151)
Unencodable == {"None", "retval"}

\* of the fields the hooks write, only result holds such a value
Encodable(metadata) == ("result" \in DOMAIN metadata) => (metadata.result \notin Unencodable)

\* EnhancedQueue.update_task_status (lines 99-101): the hash after the write
StatusAfter(h, status, metadata) ==
    Merge(Merge(h, [status |-> status, updated_at |-> now]),
          metadata @@ [exists |-> TRUE, expires_at |-> now + StatusTtl])

\* EnhancedQueue.update_task_status (lines 93-103).  A mapping of encodable
\* values is stored.  For a mapping with a value the client cannot encode,
\* either the client stores its text, or hset raises before anything is sent
\* and the except branch (lines 102-103) logs and leaves the hash as it was.
update_task_status(j, status, metadata) ==
    \/ task_status' = [task_status EXCEPT ![j] = StatusAfter(@, status, metadata)]
    \/ /\ ~Encodable(metadata)
       /\ UNCHANGED task_status

\* task_postrun_handler (line 65): the status written for a Celery state
PostrunStatus(celery_state) == IF celery_state = "SUCCESS" THEN "SUCCESS" ELSE "FAILURE"

\* Task.retry as called at tasks.py:163 with max_retries = 3: a retry is sent
\* while request.retries < max_retries, else the exception is raised
CanRetryOff(retries) == retries <= MaxRetries
CanRetry(retries) == retries < MaxRetries

\* the result backend stores the state of a finished run
StoreMeta(j, celery_state, result) ==
    backend' = [backend EXCEPT ![j] = [exists |-> TRUE, expires_at |-> now + ResultExpires,
                                       state |-> celery_state, result |-> result]]

\* app.py queue_pest_detection (lines 99-124): celery_app.send_task
Submit(j) ==
    /\ j # UnknownId
    /\ job[j].pc = "none"
    /\ \E valid \in BOOLEAN :
         job' = [job EXCEPT ![j] = [NoJob EXCEPT !.pc = "queued", !.image_valid = valid]]
    /\ UNCHANGED <<now, task_status, backend, resp, clock_moves, notJobVars>>

\* task_prerun_handler (lines 38-48)
Prerun(j) ==
    /\ job[j].pc = "queued"
    /\ update_task_status(j, "STARTED",
                          [started_at |-> now, task_name |-> "tasks.process_pest_detection"])
    /\ job' = [job EXCEPT ![j].pc = "running"]
    /\ UNCHANGED <<now, backend, resp, clock_moves, notJobVars>>

\* process_pest_detection returns the result (tasks.py:141-151)
RunSucceeds(j) ==
    /\ job[j].pc = "running"
    /\ job[j].image_valid
    /\ StoreMeta(j, "SUCCESS", "retval")
    /\ job' = [job EXCEPT ![j].pc = "post_success"]
    /\ UNCHANGED <<now, task_status, resp, clock_moves, notJobVars>>

\* process_pest_detection raises (validate_image, or the vision service
\* answers an error) and the handler calls self.retry (tasks.py:159-163)
RunFails(j) ==
    /\ job[j].pc = "running"
    /\ IF CanRetry(job[j].retries)
         THEN /\ StoreMeta(j, "RETRY", "exception")
              /\ job' = [job EXCEPT ![j].pc = "post_retry", ![j].retries = @ + 1]
         ELSE /\ StoreMeta(j, "FAILURE", "exception")
              /\ job' = [job EXCEPT ![j].pc = "on_failure"]
    /\ UNCHANGED <<now, task_status, resp, clock_moves, notJobVars>>

\* task_postrun_handler (lines 50-70) after a run that returned
PostrunSuccess(j) ==
    /\ job[j].pc = "post_success"
    /\ update_task_status(j, PostrunStatus("SUCCESS"),
                          [completed_at |-> now, result |-> "retval"])
    /\ job' = [job EXCEPT ![j].pc = "done", ![j].outcome = "SUCCESS"]
    /\ UNCHANGED <<now, backend, resp, clock_moves, notJobVars>>

\* task_postrun_handler (lines 50-70) after a run that asked for a retry;
\* the retry is already queued
PostrunRetry(j) ==
    /\ job[j].pc = "post_retry"
    /\ update_task_status(j, PostrunStatus("RETRY"),
                          [completed_at |-> now, result |-> "None"])
    /\ job' = [job EXCEPT ![j].pc = "queued"]
    /\ UNCHANGED <<now, backend, resp, clock_moves, notJobVars>>

\* task_failure_handler (lines 72-91)
FailureHook(j) ==
    /\ job[j].pc = "on_failure"
    /\ update_task_status(j, "FAILURE",
                          [failed_at |-> now, error |-> "exception",
                           traceback |-> "traceback"])
    /\ job' = [job EXCEPT ![j].pc = "post_failure"]
    /\ UNCHANGED <<now, backend, resp, clock_moves, notJobVars>>

\* task_postrun_handler (lines 50-70) after the run that failed for good
PostrunFailure(j) ==
    /\ job[j].pc = "post_failure"
    /\ update_task_status(j, PostrunStatus("FAILURE"),
                          [completed_at |-> now, result |-> "None"])
    /\ job' = [job EXCEPT ![j].pc = "done", ![j].outcome = "FAILURE"]
    /\ UNCHANGED <<now, backend, resp, clock_moves, notJobVars>>

\* the status a client sees stored for the id when it asks to cancel
StoredStatus(j) ==
    IF task_status[j].exists THEN task_status[j].status ELSE "PENDING"

\* app.py cancel_job (lines 244-254): celery_app.control.revoke(job_id,
\* terminate=True) broadcasts the id to the workers and answers "cancelled"
Cancel(j) ==
    /\ job[j].pc \in {"queued", "running"}
    /\ job[j].cancelled_from = "none"
    /\ job' = [job EXCEPT ![j].cancelled_from = StoredStatus(j)]
    /\ UNCHANGED <<now, task_status, backend, resp, clock_moves, notJobVars>>

\* a worker handles the revoke: a queued run is dropped when it is received,
\* a running one is terminated; the result backend gets the state REVOKED and
\* no hook of EnhancedQueue runs
Revoked(j) ==
    /\ job[j].cancelled_from # "none"
    /\ job[j].pc \in {"queued", "running"}
    /\ StoreMeta(j, "REVOKED", "exception")
    /\ job' = [job EXCEPT ![j].pc = "done", ![j].outcome = "REVOKED"]
    /\ UNCHANGED <<now, task_status, resp, clock_moves, notJobVars>>

\* the key task:<id>:status reaches its TTL (line 101)
ExpireStatus(j) ==
    /\ task_status[j].exists
    /\ now >= task_status[j].expires_at
    /\ task_status' = [task_status EXCEPT ![j] = NoHash]
    /\ UNCHANGED <<now, job, backend, resp, clock_moves, notJobVars>>

\* the result backend drops the meta after result_expires (tasks.py:447)
ExpireMeta(j) ==
    /\ backend[j].exists
    /\ now >= backend[j].expires_at
    /\ backend' = [backend EXCEPT ![j] = NoMeta]
    /\ UNCHANGED <<now, job, task_status, resp, clock_moves, notJobVars>>

\* hgetall returns every field as a string
Decoded(v) == <<"str", v>>

\* EnhancedQueue.get_task_status (lines 105-120)
get_task_status(j) ==
    IF task_status[j].exists
      THEN [f \in DOMAIN task_status[j] \ {"exists", "expires_at"} |->
               Decoded(task_status[j][f])]
      ELSE None

\* task.state.lower() (line 237)
Lower(st) == IF st = "REVOKED" THEN "revoked" ELSE st

\* app.py get_job_status (lines 214-241) on celery_app.AsyncResult(job_id)
get_job_status(j) ==
    LET task == backend[j]
        blank == [status |-> "none", result |-> "absent", error |-> "absent",
                  progress |-> "absent"]
    IN  CASE task.state = "PENDING" -> [blank EXCEPT !.status = "pending"]
          [] task.state = "SUCCESS" -> [blank EXCEPT !.status = "completed",
                                                     !.result = task.result]
          [] task.state = "FAILURE" -> [blank EXCEPT !.status = "failed",
                                                     !.error = task.result]
          [] task.state = "RETRY"   -> [blank EXCEPT !.status = "retrying",
                                                     !.progress = "retry_count 0"]
          [] OTHER                  -> [blank EXCEPT !.status = Lower(task.state)]

\* a client reads the status of a task id
ReadStatus(j) ==
    /\ resp' = [job_id |-> j, submitted |-> job[j].pc # "none",
                api |-> get_job_status(j), task_status |-> get_task_status(j)]
    /\ UNCHANGED <<now, job, task_status, backend, clock_moves, notJobVars>>

\* time.time() moves on: by a second, past the TTL of a status key, or past
\* result_expires
ClockAdvances ==
    /\ clock_moves < MaxClockMoves
    /\ \E d \in {1, StatusTtl, ResultExpires} : now' = now + d
    /\ clock_moves' = clock_moves + 1
    /\ UNCHANGED <<job, task_status, backend, resp, notJobVars>>

\* time.time() is the wall clock: it reads lower after the system clock was set back
ClockSetBack ==
    /\ clock_moves < MaxClockMoves
    /\ now > 0
    /\ now' = now - 1
    /\ clock_moves' = clock_moves + 1
    /\ UNCHANGED <<job, task_status, backend, resp, notJobVars>>

JobConstructed ==
    /\ job = [j \in JobIds |-> NoJob]
    /\ task_status = [j \in JobIds |-> NoHash]
    /\ backend = [j \in JobIds |-> NoMeta]
    /\ resp = NoResp
    /\ clock_moves = 0

JobStep(j) ==
    \/ Submit(j) \/ Prerun(j) \/ RunSucceeds(j) \/ RunFails(j)
    \/ PostrunSuccess(j) \/ PostrunRetry(j) \/ FailureHook(j) \/ PostrunFailure(j)
    \/ ExpireStatus(j) \/ ExpireMeta(j) \/ ReadStatus(j)
    \/ Cancel(j) \/ Revoked(j)

----------------------------------------------------------------------------
\* Backend queue worker (backend/queue-worker/app.py): the jobs are kept in
\* the dict jobs_storage of the process and read by GET /api/v1/jobs/{job_id}.

notWebVars == <<trackerVars, retryVars, breakerVars, jobVars, batchVars, perfVars>>

notBatchVars == <<trackerVars, retryVars, breakerVars, jobVars, webVars, perfVars>>

\* an id that is not a key of jobs_storage
NoEntry == [present |-> FALSE, status |-> "absent", result |-> "absent",
            error |-> "absent", created_at |-> -1, updated_at |-> -1]

NoAnswer == [http |-> 0, body |-> [raised |-> "none"]]

NoApiResp == [job_id |-> "none", answer |-> NoAnswer,
              prev_job_id |-> "none", prev_answer |-> NoAnswer,
              dirty |-> FALSE, written_between |-> FALSE]

\* a write of jobs_storage is remembered until the next read
Written == api_resp' = [api_resp EXCEPT !.dirty = TRUE]

\* queue_pest_detection up to `await image.read()` (lines 169-188)
QueuePest(j) ==
    /\ j # UnknownId
    /\ ~jobs_storage[j].present
    /\ jobs_storage' = [jobs_storage EXCEPT ![j] =
           [NoEntry EXCEPT !.present = TRUE, !.status = "processing",
                           !.created_at = now, !.updated_at = now]]
    /\ Written
    /\ UNCHANGED <<now, notWebVars>>

\* queue_pest_detection: detect_pests returned (lines 193-236)
PestCompleted(j) ==
    /\ jobs_storage[j].present
    /\ jobs_storage[j].status = "processing"
    /\ jobs_storage' = [jobs_storage EXCEPT ![j].status = "completed",
                                            ![j].result = "pest_detection",
                                            ![j].updated_at = now]
    /\ Written
    /\ UNCHANGED <<now, notWebVars>>

\* queue_pest_detection: the processing raised (lines 238-247)
PestFailed(j) ==
    /\ jobs_storage[j].present
    /\ jobs_storage[j].status = "processing"
    /\ jobs_storage' = [jobs_storage EXCEPT ![j].status = "failed",
                                            ![j].error = "processing_error",
                                            ![j].updated_at = now]
    /\ Written
    /\ UNCHANGED <<now, notWebVars>>

\* queue_disease_detection (lines 260-346)
QueueDisease(j) ==
    /\ j # UnknownId
    /\ ~jobs_storage[j].present
    /\ jobs_storage' = [jobs_storage EXCEPT ![j] =
           [NoEntry EXCEPT !.present = TRUE, !.status = "completed",
                           !.result = "disease_detection",
                           !.created_at = now, !.updated_at = now]]
    /\ Written
    /\ UNCHANGED <<now, notWebVars>>

\* the keyword arguments get_job_status passes to JobStatus (lines 355-360)
PassedWithTimes(j, job_data) ==
    [job_id |-> j, status |-> job_data.status, result |-> job_data.result,
     error |-> job_data.error, created_at |-> job_data.created_at]
Passed(j, job_data) ==
    [job_id |-> j, status |-> job_data.status, result |-> job_data.result,
     error |-> job_data.error]

JobStatusPattern == {"queued", "processing", "completed", "failed"}

\* JobStatus(**kwargs) (lines 127-133): created_at is required, status has
\* to match the pattern, updated_at defaults to the time of the call
JobStatus(kwargs) ==
    IF "created_at" \notin DOMAIN kwargs \/ kwargs.status \notin JobStatusPattern
      THEN [raised |-> "ValidationError", input |-> kwargs]
      ELSE [raised |-> "no", model |-> kwargs @@ [updated_at |-> now]]

\* backend get_job_status (lines 349-365): every exception of the try
\* block, the HTTPException of line 362 too, is answered as HTTP 500
BackendJobStatus(j) ==
    IF jobs_storage[j].present
      THEN LET made == JobStatus(Passed(j, jobs_storage[j]))
           IN  IF made.raised = "no"
                 THEN [http |-> 200, body |-> made]
                 ELSE [http |-> 500, body |-> made]
      ELSE [http |-> 500, body |-> [raised |-> "HTTPException",
                                    detail |-> "404: Job not found"]]

\* a client calls GET /api/v1/jobs/{job_id}
BackendReadStatus(j) ==
    /\ api_resp' = [job_id |-> j, answer |-> BackendJobStatus(j),
                    prev_job_id |-> api_resp.job_id, prev_answer |-> api_resp.answer,
                    dirty |-> FALSE, written_between |-> api_resp.dirty]
    /\ UNCHANGED <<now, jobs_storage, notWebVars>>

WebConstructed ==
    /\ jobs_storage = [j \in JobIds |-> NoEntry]
    /\ api_resp = NoApiResp

WebStep(j) ==
    \/ QueuePest(j) \/ PestCompleted(j) \/ PestFailed(j) \/ QueueDisease(j)
    \/ BackendReadStatus(j)

----------------------------------------------------------------------------
\* BatchProcessor (performance_monitor.py:267-306)

DefaultMaxBatchSize == 4   \* __init__: max_batch_size = 4
DefaultBatchTimeout == 2   \* __init__: timeout_seconds = 2.0

NumRequests == 3           \* calls of process_batch per behaviour
MaxBatchSize == 3          \* max_batch_size ranges over 1..MaxBatchSize
MaxBatchTicks == 2         \* seconds the clock advances at most

Requests == 1..NumRequests

Range(seq) == {seq[i] : i \in 1..Len(seq)}

\* a coroutine that has not called process_batch
NoBatchCall == [pc |-> "idle", at |-> 0, behind |-> 0, batch |-> <<>>,
           returned |-> "nothing", results |-> <<>>]

\* process_func: one result per request of the batch, in the batch's order
ResultOf(request_data) == [result_of |-> request_data]

process_func(batch) == [i \in 1..Len(batch) |-> ResultOf(batch[i])]

should_process_timeout_off(pending) == FALSE

\* lines 299-306: no clock is read, a non-empty list is always due
should_process_timeout(pending) ==
    IF pending = <<>> THEN FALSE ELSE Len(pending) > 0

\* line 286: batch = self.pending_requests.copy()
Copied(pending) == pending

Kept(pending) == pending

\* line 287: self.pending_requests.clear()
Cleared(pending) == <<>>

\* the call of process_func that is in progress: the last one made
Ended(calls_made, outcome) ==
    [calls_made EXCEPT ![Len(calls_made)] = [@ EXCEPT !.outcome = outcome]]

\* line 279: the coroutine calls process_batch and reaches the lock; the
\* requests are numbered in the order of their calls
BatchCalled(r) ==
    /\ batch_call[r].pc = "idle"
    /\ \A q \in Requests : q < r => batch_call[q].pc # "idle"
    /\ batch_call' = [batch_call EXCEPT ![r] =
                        [@ EXCEPT !.pc = "waiting", !.at = now,
                                  !.behind = processing_lock]]
    /\ UNCHANGED <<now, max_batch_size, batch_timeout, pending_requests,
                   processing_lock, downstream, notBatchVars>>

\* lines 281-290 and 297: under the lock, which asyncio grants in the order
\* of the calls, append the request; when the batch is due copy and clear the
\* list and call process_func, else return None
BatchEntered(r) ==
    /\ batch_call[r].pc = "waiting"
    /\ processing_lock = 0
    /\ \A q \in Requests : q < r => batch_call[q].pc \notin {"idle", "waiting"}
    /\ LET pending == Append(pending_requests, r) IN
         IF Len(pending) >= max_batch_size \/ should_process_timeout(pending)
         THEN /\ pending_requests' = Cleared(pending)
              /\ processing_lock' = r
              /\ downstream' = Append(downstream, [batch |-> Copied(pending), at |-> now,
                                                   outcome |-> "running"])
              /\ batch_call' = [batch_call EXCEPT ![r] =
                                  [@ EXCEPT !.pc = "processing",
                                            !.batch = Copied(pending)]]
         ELSE /\ pending_requests' = pending
              /\ batch_call' = [batch_call EXCEPT ![r] =
                                  [@ EXCEPT !.pc = "done", !.returned = "None"]]
              /\ UNCHANGED <<processing_lock, downstream>>
    /\ UNCHANGED <<now, max_batch_size, batch_timeout, notBatchVars>>

\* lines 290-291: process_func returns, its results are returned, the lock is released
ProcessFuncReturns(r) ==
    /\ batch_call[r].pc = "processing"
    /\ batch_call' = [batch_call EXCEPT ![r] =
                        [@ EXCEPT !.pc = "done", !.returned = "results",
                                  !.results = process_func(batch_call[r].batch)]]
    /\ downstream' = Ended(downstream, "returned")
    /\ processing_lock' = 0
    /\ UNCHANGED <<now, max_batch_size, batch_timeout, pending_requests, notBatchVars>>

ProcessFuncSwallows(r) ==
    /\ batch_call[r].pc = "processing"
    /\ batch_call' = [batch_call EXCEPT ![r] =
                        [@ EXCEPT !.pc = "done", !.returned = "None"]]
    /\ downstream' = Ended(downstream, "raised")
    /\ processing_lock' = 0
    /\ UNCHANGED <<now, max_batch_size, batch_timeout, pending_requests, notBatchVars>>

\* lines 292-295: process_func raises, the exception leaves process_batch,
\* the lock is released
ProcessFuncRaises(r) ==
    /\ batch_call[r].pc = "processing"
    /\ batch_call' = [batch_call EXCEPT ![r] =
                        [@ EXCEPT !.pc = "done", !.returned = "raised"]]
    /\ downstream' = Ended(downstream, "raised")
    /\ processing_lock' = 0
    /\ UNCHANGED <<now, max_batch_size, batch_timeout, pending_requests, notBatchVars>>

BatchTick ==
    /\ now < MaxBatchTicks
    /\ now' = now + 1
    /\ UNCHANGED <<batchVars, notBatchVars>>

\* lines 270-274
BatchConstructed(size, timeout) ==
    /\ max_batch_size = size
    /\ batch_timeout = timeout
    /\ pending_requests = <<>>
    /\ processing_lock = 0
    /\ batch_call = [r \in Requests |-> NoBatchCall]
    /\ downstream = <<>>

\* the processor as the other components' specifications leave it
BatchIdle == BatchConstructed(DefaultMaxBatchSize, DefaultBatchTimeout)

BatchStep(r) ==
    \/ BatchCalled(r) \/ BatchEntered(r)
    \/ ProcessFuncReturns(r) \/ ProcessFuncRaises(r)

----------------------------------------------------------------------------
\* ErrorTracker: statistics, health and record_error called from several threads

HourSeconds == 3600        \* timedelta(hours=hours) against timestamps in seconds
MostCommonShown == 5       \* sorted(...)[:5]
HealthThreshold == 10      \* error_stats["total_errors"] > 10

MaxRecordCalls == 2        \* record_error calls per behaviour
MaxTrackerCapacity == 2    \* max_records ranges over 1..MaxTrackerCapacity
MaxHours == 1              \* hours ranges over 1..MaxHours, the clock over MaxHours hours
MaxHealthRecords == 12     \* record_error calls per behaviour (health)
MaxThreadCalls == 3        \* record_error calls per behaviour (several threads)

Max(a, b) == IF a >= b THEN a ELSE b

\* the times the clock shows: each full hour and the second after it
TimePoints == {h * HourSeconds + e : h \in 0..MaxHours, e \in {0, 1}}

\* round(a / b, 2) in hundredths: to the nearest, a tie to the even one
RoundedHundredths(a, b) ==
    LET q == (a * 100) \div b
        r == (a * 100) % b
    IN  IF 2 * r < b THEN q
        ELSE IF 2 * r > b THEN q + 1
        ELSE IF q % 2 = 0 THEN q ELSE q + 1

RecentAll(records, hours) == records

\* lines 121-127: the records whose timestamp is not before now - hours
Recent(records, hours) ==
    SelectSeq(records, LAMBDA rec : rec.timestamp >= now - hours * HourSeconds)

\* lines 130-140: a dict with one entry per value that occurs
CountsBy(records, field) ==
    [v \in {records[i][field] : i \in 1..Len(records)} |->
        Cardinality({i \in 1..Len(records) : records[i][field] = v})]

\* the keys error_counts holds
CountedKeys == {k \in AllKeys : error_counts[k] > 0}

\* lines 150-152: the MostCommonShown entries of error_counts with the highest counts
MostCommon ==
    LET shown == IF Cardinality(CountedKeys) <= MostCommonShown THEN CountedKeys
                 ELSE CHOOSE S \in SUBSET CountedKeys :
                        /\ Cardinality(S) = MostCommonShown
                        /\ \A a \in S, b \in CountedKeys \ S :
                             error_counts[a] >= error_counts[b]
    IN  [k \in shown |-> error_counts[k]]

\* ErrorTracker.get_error_statistics, lines 116-153
get_error_statistics(hours) ==
    LET recent_errors == Recent(error_records, hours)
    IN  [time_period_hours |-> hours,
         total_errors |-> Len(recent_errors),
         error_rate_per_hour |-> RoundedHundredths(Len(recent_errors), Max(hours, 1)),
         by_category |-> CountsBy(recent_errors, "category"),
         by_severity |-> CountsBy(recent_errors, "severity"),
         most_common_errors |-> MostCommon]

HealthOfTotalOnly(error_stats) ==
    IF error_stats.total_errors > HealthThreshold THEN "degraded" ELSE "healthy"

\* lines 345-349
HealthOf(error_stats) ==
    IF "critical" \in DOMAIN error_stats.by_severity
         /\ error_stats.by_severity["critical"] > 0
    THEN "unhealthy"
    ELSE IF error_stats.total_errors > HealthThreshold THEN "degraded"
    ELSE "healthy"

\* get_system_health, lines 340-355
get_system_health ==
    LET error_stats == get_error_statistics(1)
    IN  [status |-> HealthOf(error_stats), error_statistics |-> error_stats,
         timestamp |-> now]

notTrackerVars == <<retryVars, breakerVars, jobVars, webVars, batchVars, perfVars>>

notPerfVars == <<retryVars, breakerVars, jobVars, webVars, batchVars>>

\* one call of record_error with any error, category and severity
RecordAny ==
    /\ Len(recorded) < MaxRecordCalls
    /\ \E t \in ErrTypes, cat \in Categories, sev \in Severities :
         record_error([type |-> t, nth |-> next_id], cat, sev, "none")
    /\ UNCHANGED <<now, notTrackerVars>>

\* one call of record_error where only the severity varies
RecordSeverity ==
    /\ Len(recorded) < MaxHealthRecords
    /\ \E sev \in Severities :
         record_error([type |-> "ValueError", nth |-> next_id], "model_error", sev, "none")
    /\ UNCHANGED <<now, notTrackerVars>>

ReadStatistics ==
    /\ \E hours \in 1..MaxHours :
         stats' = [kind |-> "statistics", hours |-> hours, at |-> now,
                   answer |-> get_error_statistics(hours)]
    /\ UNCHANGED <<now, max_records, error_records, error_counts, next_id, recorded,
                   tw, notTrackerVars>>

ReadHealth ==
    /\ stats' = [kind |-> "health", hours |-> 1, at |-> now, answer |-> get_system_health]
    /\ UNCHANGED <<now, max_records, error_records, error_counts, next_id, recorded,
                   tw, notTrackerVars>>

\* the clock moves on to a later time point
TrackerTick ==
    /\ \E t \in TimePoints : t > now /\ now' = t
    /\ stats' = NoStats
    /\ UNCHANGED <<max_records, error_records, error_counts, next_id, recorded,
                   tw, notTrackerVars>>

\* more than the hour that get_system_health looks back passes
HourPasses ==
    /\ now <= HourSeconds
    /\ now' = now + HourSeconds + 1
    /\ stats' = NoStats
    /\ UNCHANGED <<max_records, error_records, error_counts, next_id, recorded,
                   tw, notTrackerVars>>

\* record_error called from several threads of one process: the tracker has
\* no lock, so the threads interleave between the statements of lines 89-97
threadFrame == <<now, max_records, stats, notTrackerVars>>

\* lines 76-89: build the record and append it
ThreadAppends(w) ==
    /\ tw[w].pc = "idle"
    /\ Len(recorded) < MaxThreadCalls
    /\ \E t \in ErrTypes :
         LET err == [type |-> t, nth |-> next_id]
             rec == NewRecord(err, "model_error", "medium", "none")
         IN  /\ error_records' = Append(error_records, rec)
             /\ recorded' = Append(recorded, rec)
             /\ tw' = [tw EXCEPT ![w] = [NoRecordCall EXCEPT
                                           !.pc = "len",
                                           !.key = ErrorKey("model_error", err)]]
    /\ next_id' = next_id + 1
    /\ UNCHANGED <<error_counts, threadFrame>>

\* line 92: if len(self.error_records) > self.max_records
ThreadChecksLen(w) ==
    /\ tw[w].pc = "len"
    /\ tw' = [tw EXCEPT ![w].pc =
                IF Len(error_records) > max_records THEN "slice" ELSE "count"]
    /\ UNCHANGED <<error_records, error_counts, next_id, recorded, threadFrame>>

\* line 93, the right-hand side: self.error_records[-self.max_records:]
ThreadSlices(w) ==
    /\ tw[w].pc = "slice"
    /\ tw' = [tw EXCEPT ![w].pc = "assign",
                        ![w].sliced = LastN(error_records, max_records)]
    /\ UNCHANGED <<error_records, error_counts, next_id, recorded, threadFrame>>

\* line 93, the assignment
ThreadAssigns(w) ==
    /\ tw[w].pc = "assign"
    /\ error_records' = tw[w].sliced
    /\ tw' = [tw EXCEPT ![w].pc = "count", ![w].sliced = <<>>]
    /\ UNCHANGED <<error_counts, next_id, recorded, threadFrame>>

\* line 97, the right-hand side: self.error_counts.get(error_key, 0) + 1
ThreadReadsCount(w) ==
    /\ tw[w].pc = "count"
    /\ tw' = [tw EXCEPT ![w].pc = "store", ![w].read = error_counts[tw[w].key]]
    /\ UNCHANGED <<error_records, error_counts, next_id, recorded, threadFrame>>

\* line 97, the assignment; the call then logs and returns (99-114)
ThreadWritesCount(w) ==
    /\ tw[w].pc = "store"
    /\ error_counts' = [error_counts EXCEPT ![tw[w].key] = tw[w].read + 1]
    /\ tw' = [tw EXCEPT ![w] = NoRecordCall]
    /\ UNCHANGED <<error_records, next_id, recorded, threadFrame>>

ThreadStep(w) ==
    \/ ThreadAppends(w) \/ ThreadChecksLen(w) \/ ThreadSlices(w)
    \/ ThreadAssigns(w) \/ ThreadReadsCount(w) \/ ThreadWritesCount(w)

----------------------------------------------------------------------------
\* PerformanceMonitor (performance_monitor.py:34-204)

DefaultMaxHistory == 1000      \* __init__: max_history = 1000
DefaultWindowMinutes == 10     \* get_performance_summary: window_minutes = 10
MinuteSeconds == 60            \* window_minutes * 60
CpuHigh == 80                  \* summary["cpu"]["avg"] > 80
InferenceSlow == 5000          \* summary["inference"]["avg_ms"] > 5000

MaxSamples == 5            \* collect_metrics calls per behaviour
MaxPerfMinutes == 4        \* minutes the clock advances one by one

\* what a sample can hold: an idle system and a loaded one
SampleLoads == {[cpu_percent |-> 50, inference_time_ms |-> 0],
                [cpu_percent |-> 90, inference_time_ms |-> 6000]}

\* the windows asked for
WindowChoices == {1, DefaultWindowMinutes}

\* no summary was asked for
NoSummary == [asked |-> FALSE]

\* deque(maxlen=max_history).append
DequeAppend(history, metrics) ==
    IF max_history = 0 THEN history
    ELSE IF Len(history) >= max_history THEN Append(Tail(history), metrics)
    ELSE Append(history, metrics)

\* lines 86-115: collect_metrics appends the sample it built
CollectMetrics ==
    /\ Len(metrics_history) < MaxSamples
    /\ \E load \in SampleLoads :
         metrics_history' = DequeAppend(metrics_history,
                               [timestamp |-> now, cpu_percent |-> load.cpu_percent,
                                inference_time_ms |-> load.inference_time_ms])
    /\ summary' = NoSummary
    /\ UNCHANGED <<now, max_history, trackerVars, notPerfVars>>

RECURSIVE SeqSum(_)
SeqSum(values) == IF values = <<>> THEN 0 ELSE Head(values) + SeqSum(Tail(values))

SeqMax(values) == CHOOSE v \in Range(values) : \A u \in Range(values) : v >= u

SeqMin(values) == CHOOSE v \in Range(values) : \A u \in Range(values) : v <= u

\* np.mean, np.max and np.min of a non-empty list, in hundredths where rounded
Stats(values) ==
    [avg |-> RoundedHundredths(SeqSum(values), Len(values)),
     max |-> SeqMax(values), min |-> SeqMin(values)]

RecentMetricsAll(history, window_minutes) == history

\* lines 134-140: the samples whose timestamp is not before now - window_minutes * 60
RecentMetrics(history, window_minutes) ==
    SelectSeq(history, LAMBDA m : m.timestamp >= now - window_minutes * MinuteSeconds)

\* get_performance_summary, lines 131-204 (cpu and inference; memory is
\* computed as cpu is, and there is no accelerator)
get_performance_summary(window_minutes) ==
    LET recent_metrics == RecentMetrics(metrics_history, window_minutes)
        cpu_values == [i \in 1..Len(recent_metrics) |-> recent_metrics[i].cpu_percent]
        inference_values ==
          LET positive == SelectSeq(recent_metrics, LAMBDA m : m.inference_time_ms > 0)
          IN  [i \in 1..Len(positive) |-> positive[i].inference_time_ms]
        cpu == Stats(cpu_values)
        inference == IF inference_values # <<>> THEN Stats(inference_values)
                     ELSE [avg |-> 0, max |-> 0, min |-> 0]
    IN  IF recent_metrics = <<>>
        THEN [asked |-> TRUE, window_minutes |-> window_minutes,
              error |-> "No recent metrics available"]
        ELSE [asked |-> TRUE, window_minutes |-> window_minutes,
              time_window_minutes |-> window_minutes,
              sample_count |-> Len(recent_metrics),
              cpu |-> cpu,
              inference |-> inference,
              health |-> [cpu_status |-> IF cpu.avg > CpuHigh * 100 THEN "high"
                                         ELSE "normal",
                          inference_status |-> IF inference.avg > InferenceSlow * 100
                                               THEN "slow" ELSE "normal"]]

ReadSummary ==
    /\ \E window_minutes \in WindowChoices :
         summary' = get_performance_summary(window_minutes)
    /\ UNCHANGED <<now, max_history, metrics_history, trackerVars, notPerfVars>>

\* a minute passes
MinutePasses ==
    /\ now < MaxPerfMinutes * MinuteSeconds
    /\ now' = now + MinuteSeconds
    /\ summary' = NoSummary
    /\ UNCHANGED <<max_history, metrics_history, trackerVars, notPerfVars>>

\* the default window passes
WindowPasses ==
    /\ now < DefaultWindowMinutes * MinuteSeconds
    /\ now' = now + DefaultWindowMinutes * MinuteSeconds
    /\ summary' = NoSummary
    /\ UNCHANGED <<max_history, metrics_history, trackerVars, notPerfVars>>

\* PerformanceMonitor.__init__, lines 37-41
PerfConstructed(maxlen) ==
    /\ max_history = maxlen
    /\ metrics_history = <<>>
    /\ summary = NoSummary

\* the monitor as the other components' specifications leave it
PerfIdle == PerfConstructed(DefaultMaxHistory)

----------------------------------------------------------------------------
\* Specifications

\* the wrapper and the tracker as the other components' specifications leave them
RetryIdle ==
    /\ TrackerInit
    /\ retry_attempts = 0
    /\ category = "model_error"
    /\ severity = "medium"
    /\ has_recovery = FALSE
    /\ is_async = FALSE
    /\ wrapper_calls = 0
    /\ RetryLocalsInit

RetryInit ==
    /\ now = 0
    /\ TrackerInit
    /\ retry_attempts \in 0..MaxRetryAttempts
    /\ category \in Categories
    /\ severity \in Severities
    /\ has_recovery \in BOOLEAN
    /\ is_async \in BOOLEAN
    /\ wrapper_calls = 0
    /\ RetryLocalsInit
    /\ BreakerIdle
    /\ JobConstructed
    /\ WebConstructed
    /\ BatchIdle
    /\ PerfIdle

RetryNext == AttemptReturns \/ AttemptRaises \/ Exhausted \/ CallWrapper

SpecRetry == RetryInit /\ [][RetryNext]_vars

\* the retry executor with enough retries for the backoff to reach its cap
BackoffInit ==
    /\ now = 0
    /\ TrackerInit
    /\ retry_attempts \in 0..MaxBackoffAttempts
    /\ category = "network_error"
    /\ severity = "medium"
    /\ has_recovery = FALSE
    /\ is_async \in BOOLEAN
    /\ wrapper_calls = 0
    /\ RetryLocalsInit
    /\ BreakerIdle
    /\ JobConstructed
    /\ WebConstructed
    /\ BatchIdle
    /\ PerfIdle

SpecBackoff == BackoffInit /\ [][RetryNext]_vars

BreakerSeqInit ==
    /\ now = StartTime
    /\ RetryIdle
    /\ JobConstructed
    /\ WebConstructed
    /\ BatchIdle
    /\ PerfIdle
    /\ \E threshold \in 1..MaxThreshold :
         BreakerConstructed(threshold, TimeoutSeconds, MaxSeqCalls, MaxSeqTicks)

\* one caller: every call runs to its end before the next starts
BreakerSeqNext == Step(1) \/ Tick

SpecBreakerSeq == BreakerSeqInit /\ [][BreakerSeqNext]_vars

BreakerInit ==
    /\ now = StartTime
    /\ RetryIdle
    /\ JobConstructed
    /\ WebConstructed
    /\ BatchIdle
    /\ PerfIdle
    /\ \E threshold \in 1..MaxThreshold :
         BreakerConstructed(threshold, TimeoutSeconds, MaxCalls, MaxTicks)

\* several workers call the same breaker
BreakerNext == (\E w \in Workers : Step(w)) \/ Tick

SpecBreaker == BreakerInit /\ [][BreakerNext]_vars

JobInit ==
    /\ now = StartTime
    /\ RetryIdle
    /\ BreakerIdle
    /\ JobConstructed
    /\ WebConstructed
    /\ BatchIdle
    /\ PerfIdle

JobNext ==
    \/ \E j \in JobIds : JobStep(j)
    \/ ClockAdvances
    \/ ClockSetBack

SpecJob == JobInit /\ [][JobNext]_vars

GuardedInit ==
    /\ now = StartTime
    /\ TrackerInit
    /\ retry_attempts \in 0..MaxRetryAttempts
    /\ category \in Categories
    /\ severity \in Severities
    /\ has_recovery \in BOOLEAN
    /\ is_async \in BOOLEAN
    /\ wrapper_calls = 0
    /\ RetryLocalsInit
    /\ JobConstructed
    /\ WebConstructed
    /\ BatchIdle
    /\ PerfIdle
    /\ \E threshold \in 1..MaxThreshold :
         BreakerConstructed(threshold, TimeoutSeconds, 0, 0)

GuardedNext ==
    CallWrapper \/ GuardedRejected \/ GuardedReturns \/ GuardedRaises \/ Exhausted

SpecGuarded == GuardedInit /\ [][GuardedNext]_vars

\* the coroutines of one event loop submit their requests to one processor
BatchInit ==
    /\ now = 0
    /\ RetryIdle
    /\ BreakerIdle
    /\ JobConstructed
    /\ WebConstructed
    /\ PerfIdle
    /\ \E size \in 1..MaxBatchSize : BatchConstructed(size, DefaultBatchTimeout)

BatchNext == (\E r \in Requests : BatchStep(r)) \/ BatchTick

SpecBatch == BatchInit /\ [][BatchNext]_vars

\* record_error, the statistics and the clock, with a small buffer
TrackerSpecInit ==
    /\ now = 0
    /\ \E capacity \in 1..MaxTrackerCapacity : TrackerConstructed(capacity)
    /\ retry_attempts = 0
    /\ category = "model_error"
    /\ severity = "medium"
    /\ has_recovery = FALSE
    /\ is_async = FALSE
    /\ wrapper_calls = 0
    /\ RetryLocalsInit
    /\ BreakerIdle
    /\ JobConstructed
    /\ WebConstructed
    /\ BatchIdle
    /\ PerfIdle

TrackerNext == RecordAny \/ ReadStatistics \/ TrackerTick

SpecTracker == TrackerSpecInit /\ [][TrackerNext]_vars

\* the health read over the global tracker
HealthInit ==
    /\ now = 0
    /\ RetryIdle
    /\ BreakerIdle
    /\ JobConstructed
    /\ WebConstructed
    /\ BatchIdle
    /\ PerfIdle

HealthNext == RecordSeverity \/ ReadHealth \/ HourPasses

SpecHealth == HealthInit /\ [][HealthNext]_vars

\* several threads record errors in the one tracker of their process
TrackerThreadsInit == TrackerSpecInit

TrackerThreadsNext == \E w \in TrackerThreads : ThreadStep(w)

SpecTrackerThreads == TrackerThreadsInit /\ [][TrackerThreadsNext]_vars

\* samples are collected and summarised while the clock advances
PerfInit ==
    /\ now = 0
    /\ RetryIdle
    /\ BreakerIdle
    /\ JobConstructed
    /\ WebConstructed
    /\ BatchIdle
    /\ PerfConstructed(DefaultMaxHistory)

PerfNext == CollectMetrics \/ ReadSummary \/ MinutePasses \/ WindowPasses

SpecPerf == PerfInit /\ [][PerfNext]_vars

\* The status reads of the two queue workers.  The services are separate
\* processes that share no data, so a behaviour exercises one of them.
JobUntouched ==
    /\ job = [j \in JobIds |-> NoJob]
    /\ task_status = [j \in JobIds |-> NoHash]
    /\ backend = [j \in JobIds |-> NoMeta]
    /\ resp = NoResp

WebUntouched == WebConstructed

StatusReadsInit == JobInit

StatusReadsNext ==
    \/ (WebUntouched /\ \E j \in JobIds : JobStep(j))
    \/ (JobUntouched /\ \E j \in JobIds : WebStep(j))
    \/ ClockAdvances
    \/ ClockSetBack

SpecStatusReads == StatusReadsInit /\ [][StatusReadsNext]_vars

----------------------------------------------------------------------------
\* Claims about the retry executor (checked under SpecRetry)

\* the records appended to the tracker by the current wrapper call
AppendedByCall == SubSeq(error_records, records_at_call + 1, Len(error_records))

\* C1: when every invocation of the wrapped function raises, the function is
\* invoked exactly retry_attempts + 1 times, exactly retry_attempts + 1 records
\* are appended to the Error Tracker (one per invocation, in order), and the
\* error of the last invocation is re-raised; the loop never runs beyond that.
C1_ExhaustedRetries ==
    /\ r_pc = "raised" =>
         /\ calls = retry_attempts + 1
         /\ Len(AppendedByCall) = retry_attempts + 1
         /\ \A i \in 1..Len(AppendedByCall) :
              /\ AppendedByCall[i].message.nth = i
              /\ AppendedByCall[i].context.attempt = i
         /\ raised_error = last_error
         /\ raised_error # None
         /\ raised_error.nth = retry_attempts + 1
    /\ r_pc = "loop" => calls <= retry_attempts + 1

C1_Witness ==
    /\ r_pc = "raised"
    /\ retry_attempts = 2
    /\ calls = 3
    /\ Len(AppendedByCall) = 3

----------------------------------------------------------------------------
\* Claims about the circuit breaker

AllIdle == \A w \in Workers : wk[w].pc = "idle"

\* the caller's call passed the gate as the trial call of an open breaker
WasTrial(w) == wk[w].gate_state \in {"OPEN", "HALF_OPEN"} /\ wk[w].invoked

\* C3: for every sequence of calls of one caller, between calls failure_count
\* is the number of consecutive failures of func since its last success, and
\* the breaker is OPEN exactly when that number has reached failure_threshold
\* and CLOSED exactly when it is below it.
C3_OpensAtThreshold ==
    wk[1].pc = "idle" =>
        /\ failure_count = consec
        /\ (state = "OPEN") <=> (consec >= failure_threshold)
        /\ (state = "CLOSED") <=> (consec < failure_threshold)

\* threshold 2: a failure, a success, then two consecutive failures open it
C3_Witness ==
    /\ wk[1].pc = "idle"
    /\ failure_threshold = 2
    /\ fn_succeeded = 1
    /\ fn_failed = 3
    /\ consec = 2
    /\ state = "OPEN"

\* C4: a call that finds the breaker OPEN with now - last_failure_time <=
\* timeout_seconds fails fast with the circuit-open error and never invokes
\* func, whatever the other workers do.
C4_FailFastWhileOpen ==
    \A w \in Workers :
        (wk[w].gate_state = "OPEN" /\ ~wk[w].gate_elapsed) =>
            /\ wk[w].pc = "idle"
            /\ wk[w].outcome = "rejected"
            /\ ~wk[w].invoked

\* a call is rejected exactly timeout_seconds after the last failure
C4_Witness ==
    \E w \in Workers :
        /\ wk[w].gate_state = "OPEN"
        /\ ~wk[w].gate_elapsed
        /\ wk[w].outcome = "rejected"
        /\ now - last_failure_time = timeout_seconds
        /\ state = "OPEN"

\* C5: once the timeout has passed only one trial call is inside func until
\* it completes: no two calls that passed the gate of a breaker that was
\* not CLOSED are inside func together.
C5_SingleTrialCall ==
    Cardinality({w \in Workers : wk[w].pc = "in_fn" /\ WasTrial(w)}) <= 1

\* C6: between the calls of one caller, a trial call that succeeded has left
\* the breaker CLOSED with failure_count = 0, and a trial call that failed
\* has left it OPEN with last_failure_time at the time of that failure.
C6_TrialDecides ==
    (wk[1].pc = "idle" /\ WasTrial(1)) =>
        /\ wk[1].outcome = "success" => (state = "CLOSED" /\ failure_count = 0)
        /\ wk[1].outcome = "failure" =>
             /\ state = "OPEN"
             /\ last_failure_time >= wk[1].fn_at
             /\ last_failure_time <= now

C6_Witness ==
    /\ wk[1].pc = "idle"
    /\ WasTrial(1)
    /\ wk[1].outcome = "failure"
    /\ state = "OPEN"
    /\ last_failure_time > StartTime + timeout_seconds

\* the other outcome of a trial call
C6_WitnessSuccess ==
    /\ wk[1].pc = "idle"
    /\ WasTrial(1)
    /\ wk[1].outcome = "success"
    /\ state = "CLOSED"
    /\ fn_failed >= failure_threshold

\* C7: counter updates are serialized, so no failure_count increment is lost:
\* when no call is in progress and func has never succeeded, failure_count
\* is the number of failures of func, as after any sequential order of the calls.
C7_NoLostIncrement ==
    (AllIdle /\ fn_succeeded = 0) => failure_count = fn_failed

----------------------------------------------------------------------------
\* Queue worker claims

SubmittedIds == JobIds \ {UnknownId}

\* C2: for every job the retry count never exceeds max_retries (3), and once
\* the retries are exhausted by a call that keeps failing (the last run
\* raised with no retry left and its hooks have run) the job was retried
\* exactly 3 times and its stored status, while the record is kept, is
\* exactly FAILURE.
C2_RetriesBounded ==
    \A j \in JobIds :
        /\ job[j].retries <= MaxRetries
        /\ job[j].pc \in {"on_failure", "post_failure"} => job[j].retries = MaxRetries
        /\ (job[j].pc = "done" /\ job[j].outcome = "FAILURE") =>
              /\ job[j].retries = MaxRetries
              /\ task_status[j].exists => task_status[j].status = "FAILURE"

C2_Witness ==
    \E j \in SubmittedIds :
        /\ job[j].pc = "done"
        /\ job[j].outcome = "FAILURE"
        /\ job[j].retries = MaxRetries
        /\ task_status[j].exists
        /\ task_status[j].status = "FAILURE"

C9_UpdatedAtMonotonic ==
    [][\A j \in JobIds :
          (task_status[j].exists /\ task_status'[j].exists)
          => task_status'[j].updated_at >= task_status[j].updated_at]_vars

\* C10: a status read of an id that was never submitted answers "not found",
\* which no job status equals.
C10_NotFoundWhenNeverSubmitted ==
    (resp.job_id # "none" /\ ~resp.submitted) => resp.api.status = "not found"

\* C11: a status read is idempotent.  Two consecutive reads of one job id
\* by GET /api/v1/jobs/{job_id} with no write of jobs_storage in between
\* return identical answers; a step that writes no status hash (no result
\* meta) leaves the answer of get_task_status (of GET /jobs/{job_id}) for
\* every id as it was; and a read changes no store.
C11_TwoReadsAgree ==
    (/\ api_resp.job_id # "none"
     /\ api_resp.prev_job_id = api_resp.job_id
     /\ ~api_resp.written_between)
    => api_resp.answer = api_resp.prev_answer

C11_ReadStep ==
    /\ \A j \in JobIds :
         (task_status' = task_status) => (get_task_status(j)' = get_task_status(j))
    /\ \A j \in JobIds :
         (backend' = backend) => (get_job_status(j)' = get_job_status(j))
    /\ (resp' # resp) => UNCHANGED <<task_status, backend, job>>
    /\ (api_resp' # api_resp /\ ~api_resp'.dirty) => UNCHANGED jobs_storage

C12_CancelledStays ==
    \A j \in JobIds :
        (job[j].cancelled_from \in {"PENDING", "STARTED"} /\ task_status[j].exists)
        => task_status[j].status = "CANCELLED"

\* C13: every stored snapshot with status FAILURE carries an error string
\* and an error_id, and no stored snapshot carries a traceback.
C13_FailureSnapshot ==
    \A j \in JobIds :
        task_status[j].exists =>
            /\ task_status[j].traceback = "absent"
            /\ task_status[j].status = "FAILURE" =>
                 /\ task_status[j].error # "absent"
                 /\ "error_id" \in DOMAIN task_status[j]

\* C14: in the retry executor every failed attempt appends exactly one
\* Error Tracker entry and a successful attempt appends none: at any point
\* of a wrapper call the entries appended by it are those of its failed
\* attempts, in order, and when func returns after k failed attempts
\* (0 <= k <= retry_attempts) the wrapper returns with exactly k entries
\* appended and k + 1 invocations, the last of which is the successful one.
C14_OneEntryPerFailure ==
    /\ r_pc # "idle" =>
         /\ Len(AppendedByCall) = attempt
         /\ \A i \in 1..Len(AppendedByCall) :
              /\ AppendedByCall[i].message.nth = i
              /\ AppendedByCall[i].context.attempt = i
    /\ r_pc = "returned" =>
         /\ attempt <= retry_attempts
         /\ calls = attempt + 1
         /\ raised_error = None
    /\ r_pc = "loop" => calls = attempt

\* success on the last attempt the budget allows, after two failures
C14_Witness ==
    /\ r_pc = "returned"
    /\ retry_attempts = 2
    /\ attempt = 2
    /\ calls = 3
    /\ Len(AppendedByCall) = 2

\* C15: an error of a non-retryable class (a ValueError) never enters the
\* retry loop: func is not invoked again after an attempt that raised one.
C15_ValidationNotRetried ==
    \A i \in 1..Len(AppendedByCall) :
        AppendedByCall[i].message.type = "ValueError" => calls = i

\* C16: a circuit-open failure of a breaker that guards the call inside the
\* retry executor is surfaced at once and consumes no retry attempt: the
\* attempt in which the breaker rejects the call leaves the attempt count
\* and the waits as they were and ends the wrapper call with that error.
C16_CircuitOpenNotCounted ==
    [][(ncalls' = ncalls + 1 /\ wk'[1].outcome = "rejected")
         => (attempt' = attempt /\ waits' = waits /\ r_pc' = "raised")]_vars

\* C17: when a recovery hook is supplied, it has been invoked once, with the
\* error and the attempt context, after every failed attempt that had
\* retries remaining, and never after the final attempt; a hook that raised
\* did not end the loop.
C17_RecoveryHook ==
    (has_recovery /\ r_pc # "idle") =>
        /\ Len(recoveries) = Min(attempt, retry_attempts)
        /\ \A i \in 1..Len(recoveries) :
             /\ recoveries[i].error = AppendedByCall[i].message
             /\ recoveries[i].context = AppendedByCall[i].context
             /\ recoveries[i].context.attempt = i

\* C18: before the retry that follows failed attempt number k the wrapper
\* waits exactly min(2^(k-1), 30) seconds, so the waits are 1, 2, 4, 8, 16,
\* 30, 30, ...; there is one wait per failed attempt that is retried and
\* none after the final failed attempt or after a success.
C18_BackoffWaits ==
    r_pc # "idle" =>
        /\ Len(waits) = Min(attempt, retry_attempts)
        /\ \A k \in 1..Len(waits) :
             /\ waits[k] = (IF 2 ^ (k - 1) <= 30 THEN 2 ^ (k - 1) ELSE 30)
             /\ k <= 7 => waits[k] = <<1, 2, 4, 8, 16, 30, 30>>[k]

\* seven retries, all of them failed: the cap is reached twice
C18_Witness ==
    /\ r_pc = "raised"
    /\ retry_attempts = 7
    /\ attempt = 8
    /\ waits = <<1, 2, 4, 8, 16, 30, 30>>
    /\ now = 91

----------------------------------------------------------------------------
\* the calls of process_batch that have appended their request
BatchSubmitted == {r \in Requests : batch_call[r].pc \in {"processing", "done"}}

\* the calls of process_batch that returned what process_func returned
BatchAnswered == {r \in Requests : batch_call[r].returned = "results"}

\* the calls of process_batch whose process_func raised
BatchRaised == {r \in Requests : batch_call[r].returned = "raised"}

\* how often request r occurs in the pending list and in the batches sent downstream
TimesHeld(r) ==
    Cardinality({i \in 1..Len(pending_requests) : pending_requests[i] = r})
    + Cardinality({p \in {q \in (1..Len(downstream)) \X (1..NumRequests) :
                            q[2] <= Len(downstream[q[1]].batch)} :
                      downstream[p[1]].batch[p[2]] = r})

\* how often the result of request r occurs in what the calls returned
TimesReturned(r) ==
    Cardinality({p \in {q \in BatchAnswered \X (1..NumRequests) :
                          q[2] <= Len(batch_call[q[1]].results)} :
                    batch_call[p[1]].results[p[2]] = ResultOf(r)})

C20_FlushOnlyWhenDue ==
    /\ \A i \in 1..Len(downstream) :
         \/ Len(downstream[i].batch) >= max_batch_size
         \/ downstream[i].at - batch_call[downstream[i].batch[1]].at >= batch_timeout
    /\ ( /\ Cardinality(BatchSubmitted) = max_batch_size
         /\ \A r \in BatchSubmitted : now - batch_call[r].at < batch_timeout )
       => Len(downstream) = 1

----------------------------------------------------------------------------
\* C22: after any sequence of record_error calls the buffer holds at most
\* max_records records, and they are the most recent min(n, max_records) of
\* the n records recorded, in the order of the calls and as they were built.
C22_BufferMostRecent ==
    LET n == Len(recorded)
        k == Min(n, max_records)
    IN  /\ Len(error_records) <= max_records
        /\ Len(error_records) = k
        /\ \A i \in 1..k : error_records[i] = recorded[n - k + i]

\* more records were recorded than the buffer holds: the oldest was evicted
C22_Witness ==
    /\ Len(recorded) > max_records
    /\ Len(error_records) = max_records
    /\ error_records[1] # recorded[1]

\* the positions of the buffered records whose timestamp lies in [now - window, now]
InWindow(hours) ==
    {i \in 1..Len(error_records) :
       /\ error_records[i].timestamp >= now - hours * HourSeconds
       /\ error_records[i].timestamp <= now}

RECURSIVE SumOf(_, _)
\* the sum of the entries of the dict f with a key in S
SumOf(f, S) ==
    IF S = {} THEN 0
    ELSE LET k == CHOOSE x \in S : TRUE
         IN  (IF k \in DOMAIN f THEN f[k] ELSE 0) + SumOf(f, S \ {k})

\* C23: the statistics over a window count the buffered records whose
\* timestamp lies in [now - window, now] and no others: total_errors is their
\* number, by_category and by_severity have one entry per category and
\* severity that occurs among them, holding its number, and each sums to
\* total_errors.
C23_StatisticsWindow ==
    stats.kind = "statistics" =>
      LET answer == stats.answer
          inside == InWindow(stats.hours)
      IN  /\ answer.total_errors = Cardinality(inside)
          /\ DOMAIN answer.by_category = {error_records[i].category : i \in inside}
          /\ \A c \in DOMAIN answer.by_category :
               answer.by_category[c]
                 = Cardinality({i \in inside : error_records[i].category = c})
          /\ DOMAIN answer.by_severity = {error_records[i].severity : i \in inside}
          /\ \A v \in DOMAIN answer.by_severity :
               answer.by_severity[v]
                 = Cardinality({i \in inside : error_records[i].severity = v})
          /\ SumOf(answer.by_category, Categories) = answer.total_errors
          /\ SumOf(answer.by_severity, Severities) = answer.total_errors

\* a read that counted one buffered record and left out an older one, the
\* counted one lying exactly window seconds back
C23_Witness ==
    /\ stats.kind = "statistics"
    /\ Len(error_records) = 2
    /\ stats.answer.total_errors = 1
    /\ error_records[2].timestamp = now - stats.hours * HourSeconds

\* the positions of the in-window buffered records recorded under key
InWindowWithKey(hours, key) ==
    {i \in InWindow(hours) :
       ErrorKey(error_records[i].category, error_records[i].message) = key}

\* C24: the most common error keys of the statistics are aggregated from the
\* buffer filtered to the window: a key is reported only when a buffered
\* record inside the window has it, and its count is the number of those
\* records.
C24_TopKeysFromWindow ==
    stats.kind = "statistics" =>
      \A key \in DOMAIN stats.answer.most_common_errors :
        /\ InWindowWithKey(stats.hours, key) # {}
        /\ stats.answer.most_common_errors[key]
             = Cardinality(InWindowWithKey(stats.hours, key))

\* the positions of the buffered records of the last hour with critical severity
CriticalInWindow == {i \in InWindow(1) : error_records[i].severity = "critical"}

\* C25: the health status is derived from the records of the last hour:
\* unhealthy when one of them is critical, whatever their number; otherwise
\* degraded when they are more than 10; otherwise healthy.
C25_HealthRule ==
    stats.kind = "health" =>
      stats.answer.status =
        (IF CriticalInWindow # {} THEN "unhealthy"
         ELSE IF Cardinality(InWindow(1)) > HealthThreshold THEN "degraded"
         ELSE "healthy")

\* a degraded answer: eleven records of the last hour, none of them critical,
\* while a critical record older than the hour is still buffered
C25_Witness ==
    /\ stats.kind = "health"
    /\ stats.answer.status = "degraded"
    /\ Cardinality(InWindow(1)) = HealthThreshold + 1
    /\ \E i \in 1..Len(error_records) :
         error_records[i].severity = "critical" /\ i \notin InWindow(1)

\* no thread is inside record_error
TrackerQuiet == \A w \in TrackerThreads : tw[w].pc = "idle"

\* the record_error calls made so far with key
CallsWithKey(key) ==
    Cardinality({i \in 1..Len(recorded) :
                   ErrorKey(recorded[i].category, recorded[i].message) = key})

\* C26: whatever the interleaving of the record_error calls of several
\* threads, once they have returned the buffer holds the most recent
\* min(n, max_records) of the n records, each once, and every counter equals
\* the number of calls made with its key.
C26_ConcurrentRecords ==
    TrackerQuiet =>
      /\ C22_BufferMostRecent
      /\ \A key \in AllKeys : error_counts[key] = CallsWithKey(key)

----------------------------------------------------------------------------
\* the positions of the samples whose timestamp lies in the last window_minutes
SamplesInWindow(window_minutes) ==
    {i \in 1..Len(metrics_history) :
       /\ metrics_history[i].timestamp >= now - window_minutes * MinuteSeconds
       /\ metrics_history[i].timestamp <= now}

\* C27: the performance summary is computed over the samples of the history
\* whose timestamp lies in the last window_minutes: sample_count is their
\* number, and when there is none the answer is an error and holds no
\* statistics.
C27_SummaryWindow ==
    summary.asked =>
      LET inside == SamplesInWindow(summary.window_minutes)
      IN  IF inside = {}
          THEN /\ "error" \in DOMAIN summary
               /\ DOMAIN summary \cap {"sample_count", "cpu", "inference", "health"} = {}
          ELSE /\ "error" \notin DOMAIN summary
               /\ summary.sample_count = Cardinality(inside)
               /\ summary.cpu.max
                    = SeqMax([i \in 1..Len(metrics_history) |->
                                IF i \in inside THEN metrics_history[i].cpu_percent
                                ELSE 0])

\* five samples taken one minute apart, summarised over ten minutes
C27_Witness ==
    /\ summary.asked
    /\ summary.window_minutes = DefaultWindowMinutes
    /\ Len(metrics_history) = 5
    /\ \A i \in 1..5 : metrics_history[i].timestamp = (i - 1) * MinuteSeconds
    /\ now = 4 * MinuteSeconds
    /\ "sample_count" \in DOMAIN summary
    /\ summary.sample_count = 5

----------------------------------------------------------------------------
\* C28: in every reachable state of the breaker, also with several workers
\* calling it, state = OPEN implies failure_count >= failure_threshold, and
\* when no call is in progress a trial call that failed has not left the
\* breaker HALF_OPEN.
C28_OpenImpliesThreshold ==
    /\ state = "OPEN" => failure_count >= failure_threshold
    /\ \A w \in Workers :
         (AllIdle /\ WasTrial(w) /\ wk[w].outcome = "failure") => state # "HALF_OPEN"

----------------------------------------------------------------------------
\* how often request r occurs in the batches handed to process_func
TimesHandedOver(r) ==
    Cardinality({p \in {q \in (1..Len(downstream)) \X (1..NumRequests) :
                          q[2] <= Len(downstream[q[1]].batch)} :
                    downstream[p[1]].batch[p[2]] = r})

\* C29: whatever the interleaving of the calls of process_batch, every
\* request that was appended has been handed to process_func in exactly one
\* batch and no other request has, every batch handed over holds between 1
\* and max_batch_size requests, and the pending list is empty while the call
\* of process_func made by a flush is in progress.
C29_HandedOverOnce ==
    /\ \A r \in Requests :
         TimesHandedOver(r) = (IF r \in BatchSubmitted THEN 1 ELSE 0)
    /\ \A i \in 1..Len(downstream) :
         /\ Len(downstream[i].batch) >= 1
         /\ Len(downstream[i].batch) <= max_batch_size
    /\ processing_lock # 0 => pending_requests = <<>>

\* the last request is being processed downstream after all the others were
C29_Witness ==
    /\ BatchSubmitted = Requests
    /\ Len(downstream) = NumRequests
    /\ processing_lock = NumRequests
    /\ max_batch_size > 1

----------------------------------------------------------------------------
====
